---- MODULE Spec2Model ----
(***************************************************************************)
(* The asset graph's address resolution (NamesToAddrs), its write path     *)
(* (UpsertAddress, UpsertA, UpsertAAAA) and the two scraper plugins that   *)
(* submit names to the store (wayback, siteDossier).                       *)
(*                                                                         *)
(* A name is a sequence of one-character strings, so that lower-casing and *)
(* trimming are computed.  A netip.Addr is a record [z, v]: z is the       *)
(* family ("4", "6", or "" for the zero Addr), v identifies the bits.      *)
(* An asset is [id, content, seen]; an edge is [from, to, type, created].  *)
(***************************************************************************)
EXTENDS Integers, Sequences, FiniteSets, TLC

VARIABLES assets, edges, now, op, calls, hist, dbq

vars == <<assets, edges, now, op, calls, hist, dbq>>

-----------------------------------------------------------------------------
(* Bounds of the model *)

\* The clock stops here: every write takes one tick, so this bounds the writes.
MaxTime == 4
\* Length of the cname_record chain of the long-chain snapshot.
MaxChain == 15
\* The longest name list handed to NamesToAddrs.
MaxNames == 2
\* The most callbacks waiting in the database queue.
MaxQueue == 1
\* The latest cutoff handed to NamesToAddrs; the snapshots' times are 1 to 3.
MaxSince == 4

-----------------------------------------------------------------------------
(* strings.ToLower and strings.TrimSpace over the characters names are made of *)

LowerChar(c) ==
    CASE c = "A" -> "a"
      [] c = "B" -> "b"
      [] c = "N" -> "n"
      [] OTHER -> c

RECURSIVE ToLower(_)
ToLower(s) ==
    IF Len(s) = 0 THEN <<>> ELSE <<LowerChar(Head(s))>> \o ToLower(Tail(s))

RECURSIVE TrimLeft(_)
TrimLeft(s) ==
    IF Len(s) > 0 /\ Head(s) = " " THEN TrimLeft(Tail(s)) ELSE s

RECURSIVE TrimRight(_)
TrimRight(s) ==
    IF Len(s) > 0 /\ s[Len(s)] = " " THEN TrimRight(SubSeq(s, 1, Len(s) - 1)) ELSE s

TrimSpace(s) == TrimRight(TrimLeft(s))

\* strings.ToLower(strings.TrimSpace(name))
Normalize(s) == ToLower(TrimSpace(s))

-----------------------------------------------------------------------------
(* netip.ParseAddr, Addr.String, Addr.Is4, Addr.Is6 *)

ZeroAddr == [z |-> "", v |-> 0]
V4Addr == [z |-> "4", v |-> 1]
V6Addr == [z |-> "6", v |-> 2]
V6Other == [z |-> "6", v |-> 3]

\* [ok, ip]: ok is FALSE where ParseAddr returns an error.
ParseAddr(s) ==
    CASE s = "93.184.216.34" -> [ok |-> TRUE, ip |-> V4Addr]
      [] s = "2606:2800:220:1:248:1893:25c8:1946" -> [ok |-> TRUE, ip |-> V6Addr]
      [] s = "2606:2800:0220:1:248:1893:25c8:1946" -> [ok |-> TRUE, ip |-> V6Addr]
      [] s = "2001:db8::1" -> [ok |-> TRUE, ip |-> V6Other]
      [] OTHER -> [ok |-> FALSE, ip |-> ZeroAddr]

AddrString(ip) ==
    CASE ip = V4Addr -> "93.184.216.34"
      [] ip = V6Addr -> "2606:2800:220:1:248:1893:25c8:1946"
      [] ip = V6Other -> "2001:db8::1"
      [] OTHER -> "invalid IP"

Is4(ip) == ip.z = "4"
Is6(ip) == ip.z # "" /\ ip.z # "4"

-----------------------------------------------------------------------------
(* Asset contents *)

NilContent == [kind |-> "nil", name |-> <<>>, ip |-> ZeroAddr, type |-> ""]

\* &domain.FQDN{Name: name}
FQDN(name) == [kind |-> "FQDN", name |-> name, ip |-> ZeroAddr, type |-> ""]

\* &network.IPAddress{Address: ip, Type: t}
IPAddress(ip, t) == [kind |-> "IPAddress", name |-> <<>>, ip |-> ip, type |-> t]

buildIPAddressOf(p) ==
    IF ~p.ok THEN NilContent
    ELSE IF Is4(p.ip) THEN IPAddress(p.ip, "IPv4")
    ELSE IF Is6(p.ip) THEN IPAddress(p.ip, "IPv6")
    ELSE NilContent

\* nil (NilContent) when the text does not parse or is of neither family.
buildIPAddress(addr) == buildIPAddressOf(ParseAddr(addr))

-----------------------------------------------------------------------------
(* The asset store behind g.DB: a store is [assets, edges], both sequences *)
(* in creation order; an asset's id is its index.  An asset carries the    *)
(* time it was last seen, an edge the time it was last created; time 0 is  *)
(* the zero time.Time, which filters nothing.                              *)

NoAsset == 0

\* Since(t, since): the zero time.Time (0) filters nothing.
Visible(t, since) == t >= since

Least(S) == CHOOSE x \in S : \A y \in S : x <= y

RECURSIVE Ascending(_)
\* The numbers of S as an ascending sequence.
Ascending(S) == IF S = {} THEN <<>> ELSE <<Least(S)>> \o Ascending(S \ {Least(S)})

\* DB.FindByContent: the ids of the assets of that content seen at or after since.
FindByContent(st, content, since) ==
    Ascending({i \in 1..Len(st.assets) :
                  /\ st.assets[i].content.kind = content.kind
                  /\ st.assets[i].content.name = content.name
                  /\ st.assets[i].content.ip = content.ip
                  /\ Visible(st.assets[i].seen, since)})

\* DB.FindById: the id when the asset is seen at or after since, else NoAsset (an error).
FindById(st, id, since) ==
    IF id \in 1..Len(st.assets) /\ Visible(st.assets[id].seen, since) THEN id ELSE NoAsset

\* DB.OutgoingRelations: the edges (as indices) out of the asset, of the given
\* types, created at or after since.
OutgoingRelations(st, id, since, reltypes) ==
    Ascending({i \in 1..Len(st.edges) :
                  /\ st.edges[i].from = id
                  /\ st.edges[i].type \in reltypes
                  /\ Visible(st.edges[i].created, since)})

\* The asset of that content whatever its time, or NoAsset.
Existing(st, content) ==
    CHOOSE id \in 0..Len(st.assets) :
        /\ id # NoAsset => st.assets[id].content = content
        /\ \A j \in 1..Len(st.assets) : st.assets[j].content = content => id # NoAsset /\ id <= j

\* The id Create returns: the existing asset's, or the next one.
AssetId(st, old) == IF old # NoAsset THEN old ELSE Len(st.assets) + 1

\* The assets after Create: the existing asset is seen again, a new one is appended.
PutAsset(st, t, content, old) ==
    IF old # NoAsset
    THEN [st.assets EXCEPT ![old].seen = t]
    ELSE Append(st.assets, [id |-> Len(st.assets) + 1, content |-> content, seen |-> t])

\* The edges after Create: none without a parent, the existing edge is seen
\* again, a new one is appended.
PutEdge(eds, t, parent, relation, id) ==
    IF parent = NoAsset \/ relation = "" THEN eds
    ELSE IF \E i \in 1..Len(eds) :
                eds[i].from = parent /\ eds[i].to = id /\ eds[i].type = relation
    THEN [i \in 1..Len(eds) |->
            IF eds[i].from = parent /\ eds[i].to = id /\ eds[i].type = relation
            THEN [eds[i] EXCEPT !.created = t] ELSE eds[i]]
    ELSE Append(eds, [from |-> parent, to |-> id, type |-> relation, created |-> t])

CreateWith(st, t, parent, relation, content, old) ==
    [st |-> [assets |-> PutAsset(st, t, content, old),
             edges |-> PutEdge(st.edges, t, parent, relation, AssetId(st, old))],
     id |-> AssetId(st, old), err |-> ""]

\* DB.Create(parent, relation, payload) at time t: [st, id, err].  Idempotent: an
\* asset (an edge) that exists is seen again, not created again.  A nil payload
\* creates nothing.
Create(st, t, parent, relation, content) ==
    IF content.kind = "nil" THEN [st |-> st, id |-> NoAsset, err |-> "nil payload"]
    ELSE CreateWith(st, t, parent, relation, content, Existing(st, content))

Store == [assets |-> assets, edges |-> edges]

\* A store call as the log keeps it.
CreateCall(parent, relation, content) ==
    [fn |-> "Create", parent |-> parent, relation |-> relation, content |-> content]

FindCall(content) ==
    [fn |-> "FindByContent", parent |-> NoAsset, relation |-> "", content |-> content]

-----------------------------------------------------------------------------
(* The write path *)

\* What an operation of the write path leaves: the store, the asset returned,
\* the error, the store calls made.
Outcome(st, id, err, log) == [st |-> st, id |-> id, err |-> err, calls |-> log]

UpsertFQDNWith(c, r) == Outcome(r.st, r.id, r.err, <<CreateCall(NoAsset, "", c)>>)

\* g.UpsertFQDN(ctx, fqdn): creates (or finds) the Name asset under its normalized name.
UpsertFQDN(st, t, fqdn) ==
    UpsertFQDNWith(FQDN(Normalize(fqdn)), Create(st, t, NoAsset, "", FQDN(Normalize(fqdn))))

\* return g.DB.Create(name, rrtype, ip)
addrRecordCreate(n, parent, rrtype, ip, r) ==
    Outcome(r.st, r.id, r.err, Append(n.calls, CreateCall(parent, rrtype, ip)))

\* addrRecord creating the address with no parent, so with no edge.
addrRecordFrom_NoEdge(n, t, ip, rrtype) ==
    IF n.err # "" THEN Outcome(n.st, NoAsset, n.err, n.calls)
    ELSE IF ip = NilContent
    THEN Outcome(n.st, NoAsset, "failed to build the OAM IPAddress", n.calls)
    ELSE addrRecordCreate(n, NoAsset, "", ip, Create(n.st, t, NoAsset, "", ip))

\* addrRecord without the nil check on what buildIPAddress returned.
addrRecordFrom_NoNilCheck(n, t, ip, rrtype) ==
    IF n.err # "" THEN Outcome(n.st, NoAsset, n.err, n.calls)
    ELSE addrRecordCreate(n, n.id, rrtype, IPAddress(ip.ip, "IPv4"),
                          Create(n.st, t, n.id, rrtype, IPAddress(ip.ip, "IPv4")))

\* g.addrRecord after UpsertFQDN (n) and buildIPAddress (ip).
addrRecordFrom(n, t, ip, rrtype) ==
    IF n.err # "" THEN Outcome(n.st, NoAsset, n.err, n.calls)
    ELSE IF ip = NilContent
    THEN Outcome(n.st, NoAsset, "failed to build the OAM IPAddress", n.calls)
    ELSE addrRecordCreate(n, n.id, rrtype, ip, Create(n.st, t, n.id, rrtype, ip))

\* g.addrRecord
addrRecord(st, t, fqdn, addr, rrtype) ==
    addrRecordFrom(UpsertFQDN(st, t, fqdn), t, buildIPAddress(addr), rrtype)

\* The names and address texts the write path is called with.
UpsertNames == {<<"a">>, <<" ", "B">>}
UpsertAddrs == {"93.184.216.34", "2606:2800:0220:1:248:1893:25c8:1946", "not-an-ip"}

\* What a Create handed a nil *network.IPAddress can end in: the store rejects
\* the payload, or dereferencing it panics.
NilCreateOutcomes == {"store error", "panic"}

BlankOp ==
    [name |-> "", fqdn |-> <<>>, addr |-> "", rrtype |-> "", since |-> 0, names |-> <<>>,
     err |-> "", ret |-> NoAsset, pairs |-> <<>>, targets |-> <<>>]

HistEntry(o) == [name |-> o.name, fqdn |-> o.fqdn, addr |-> o.addr, ret |-> o.ret, err |-> o.err]

\* The state after an operation of the write path that returned (id, err).
Done(o, r, err) ==
    /\ assets' = r.st.assets
    /\ edges' = r.st.edges
    /\ calls' = r.calls
    /\ op' = [o EXCEPT !.ret = r.id, !.err = err]
    /\ hist' = Append(hist, HistEntry([o EXCEPT !.ret = r.id, !.err = err]))
    /\ now' = now + 1
    /\ UNCHANGED dbq

UpsertAddressWith(ip, r) == Outcome(r.st, r.id, r.err, <<CreateCall(NoAsset, "", ip)>>)

\* g.UpsertAddress(ctx, addr): the result of buildIPAddress goes to Create as it is.
UpsertAddress(addr) ==
    /\ now < MaxTime
    /\ \E outcome \in NilCreateOutcomes :
          /\ buildIPAddress(addr) = NilContent \/ outcome = "store error"
          /\ Done([BlankOp EXCEPT !.name = "UpsertAddress", !.addr = addr],
                  UpsertAddressWith(buildIPAddress(addr),
                                    Create(Store, now, NoAsset, "", buildIPAddress(addr))),
                  IF buildIPAddress(addr) = NilContent THEN outcome ELSE "")

UpsertDone(o, r) == Done(o, r, r.err)

Upsert(opname, fqdn, addr, rrtype) ==
    /\ now < MaxTime
    /\ UpsertDone([BlankOp EXCEPT !.name = opname, !.fqdn = fqdn, !.addr = addr,
                                  !.rrtype = rrtype],
                  addrRecord(Store, now, fqdn, addr, rrtype))

\* g.UpsertA(ctx, fqdn, addr)
UpsertA(fqdn, addr) == Upsert("UpsertA", fqdn, addr, "a_record")

\* g.UpsertAAAA(ctx, fqdn, addr)
UpsertAAAA(fqdn, addr) == Upsert("UpsertAAAA", fqdn, addr, "aaaa_record")

-----------------------------------------------------------------------------
(* The scrapers' submit paths *)

\* Config.IsDomainInScope(name): the names under the session's domains.
IsDomainInScope(name) == ToLower(name) \in {<<"a">>, <<"b">>}

\* dns.AnySubdomainRegex().FindString(u): a URL is [host, path]; the match is
\* the host as written, "" (<<>>) when the URL holds no name.
FindString(u) == u.host

RECURSIVE InsertAll(_, _)
\* stringset Insert of each element: the elements of seq, each once.
InsertAll(acc, seq) ==
    IF Len(seq) = 0 THEN acc
    ELSE InsertAll(IF \E i \in 1..Len(acc) : acc[i] = Head(seq)
                   THEN acc ELSE Append(acc, Head(seq)), Tail(seq))

RECURSIVE WaybackNames(_)
\* The loop of wayback.process: the match of each one-column row that has one.
WaybackNames(urls) ==
    IF Len(urls) = 0 THEN <<>>
    ELSE (IF Len(Head(urls)) = 1 /\ FindString(Head(urls)[1]) # <<>>
          THEN <<FindString(Head(urls)[1])>> ELSE <<>>) \o WaybackNames(Tail(urls))

\* wayback.process: records is [ok, urls], ok FALSE where json.Unmarshal fails.
WaybackProcess(records) ==
    IF ~records.ok THEN <<>> ELSE InsertAll(<<>>, WaybackNames(records.urls))

RECURSIVE WaybackSubmit(_, _, _, _)
\* wayback.submit: [st, calls] after the loop over subs.
WaybackSubmit(st, t, subs, log) ==
    IF Len(subs) = 0 THEN [st |-> st, calls |-> log]
    ELSE IF ~IsDomainInScope(Head(subs)) THEN WaybackSubmit(st, t, Tail(subs), log)
    ELSE WaybackSubmit(Create(st, t, NoAsset, "", FQDN(Head(subs))).st, t, Tail(subs),
                       Append(log, CreateCall(NoAsset, "", FQDN(Head(subs)))))

Submitted(r) ==
    /\ assets' = r.st.assets
    /\ edges' = r.st.edges
    /\ calls' = r.calls

\* The response bodies the archive answers with.
WaybackBodies ==
    { [ok |-> TRUE, urls |-> << <<[host |-> <<"B">>, path |-> "/"]>>,
                               <<[host |-> <<"b">>, path |-> "/"],
                                 [host |-> <<"a">>, path |-> "/"]>>,
                               <<[host |-> <<"x">>, path |-> "/"]>>,
                               <<[host |-> <<>>, path |-> "/"]>>,
                               <<[host |-> <<"B">>, path |-> "/y"]>> >>],
      [ok |-> FALSE, urls |-> <<>>] }

\* wayback.check past its early returns: query, process, submit.
WaybackCheck(records) ==
    /\ now < MaxTime
    /\ Submitted(WaybackSubmit(Store, now, WaybackProcess(records), <<>>))
    /\ op' = [BlankOp EXCEPT !.name = "wayback"]
    /\ now' = now + 1
    /\ UNCHANGED <<hist, dbq>>

RECURSIVE SiteDossierProcess(_)
\* siteDossier.process: the names handed to submitCallback, in order.
SiteDossierProcess(scraped) ==
    IF Len(scraped) = 0 THEN <<>>
    ELSE (IF Normalize(Head(scraped)) # <<>> /\ IsDomainInScope(Normalize(Head(scraped)))
          THEN <<Normalize(Head(scraped))>> ELSE <<>>)
         \o SiteDossierProcess(Tail(scraped))

\* What support.ScrapeSubdomainNames finds in a page.
SiteDossierBodies == { <<<<" ", "B">>>>, <<<<"x">>, <<" ">>, <<"A", " ">>>> }

\* siteDossier.check past its early returns, for one page that answers: the
\* callbacks of process wait in the database queue.
SiteDossierCheck(scraped) ==
    /\ Len(dbq) + Len(SiteDossierProcess(scraped)) <= MaxQueue
    /\ dbq' = dbq \o SiteDossierProcess(scraped)
    /\ op' = [BlankOp EXCEPT !.name = "siteDossier"]
    /\ calls' = <<>>
    /\ UNCHANGED <<assets, edges, now, hist>>

\* The database queue runs the oldest callback of siteDossier.submitCallback.
RunDBQueue ==
    /\ now < MaxTime
    /\ Len(dbq) > 0
    /\ Submitted([st |-> Create(Store, now, NoAsset, "", FQDN(Head(dbq))).st,
                  calls |-> <<CreateCall(NoAsset, "", FQDN(Head(dbq)))>>])
    /\ dbq' = Tail(dbq)
    /\ op' = [BlankOp EXCEPT !.name = "submitCallback"]
    /\ now' = now + 1
    /\ UNCHANGED hist

-----------------------------------------------------------------------------
(* The write path's specification: the graph grows from the empty store *)

Init ==
    /\ assets = <<>>
    /\ edges = <<>>
    /\ now = 1
    /\ op = BlankOp
    /\ calls = <<>>
    /\ hist = <<>>
    /\ dbq = <<>>

Next ==
    \/ \E addr \in UpsertAddrs : UpsertAddress(addr)
    \/ \E fqdn \in UpsertNames, addr \in UpsertAddrs : UpsertA(fqdn, addr)
    \/ \E fqdn \in UpsertNames, addr \in UpsertAddrs : UpsertAAAA(fqdn, addr)
    \/ \E records \in WaybackBodies : WaybackCheck(records)
    \/ \E scraped \in SiteDossierBodies : SiteDossierCheck(scraped)
    \/ RunDBQueue

Spec == Init /\ [][Next]_vars

-----------------------------------------------------------------------------
(* The read path: NamesToAddrs *)

\* for i := 1; i <= 10; i++
MaxHops == 10

RECURSIVE FindNames(_, _, _, _, _)
RECURSIVE FindNamesFound(_, _, _, _, _, _)

\* The loop over names: acc is [fqdns, calls], filter the names found so far.
FindNames(st, since, names, filter, acc) ==
    IF Len(names) = 0 THEN acc
    ELSE IF Head(names) \in filter THEN FindNames(st, since, Tail(names), filter, acc)
    ELSE FindNamesFound(st, since, names, filter,
                        [acc EXCEPT !.calls = Append(@, FindCall(FQDN(Head(names))))],
                        FindByContent(st, FQDN(Head(names)), since))

\* a is what FindByContent answered for the first of names.
FindNamesFound(st, since, names, filter, acc, a) ==
    IF Len(a) > 0
    THEN FindNames(st, since, Tail(names), filter \cup {Head(names)},
                   [acc EXCEPT !.fqdns = Append(@, a[1])])
    ELSE FindNames(st, since, Tail(names), filter, acc)

\* The relation types of hop i.
RelTypes(i) == IF i = 1 THEN {"cname_record", "srv_record"} ELSE {"cname_record"}

RECURSIVE FirstFound(_, _, _)
\* The loop over rels: the first edge whose target FindById finds, 0 when none.
FirstFound(st, since, rels) ==
    IF Len(rels) = 0 THEN 0
    ELSE IF FindById(st, st.edges[Head(rels)].to, since) # NoAsset THEN Head(rels)
    ELSE FirstFound(st, since, Tail(rels))

\* w is [asset, queries, path]: the current asset, the OutgoingRelations calls
\* made, the edges followed as [hop, edge].
Follow(st, w, i, e) ==
    IF e = 0 THEN [w EXCEPT !.queries = @ + 1]
    ELSE [asset |-> st.edges[e].to, queries |-> w.queries + 1,
          path |-> Append(w.path, [hop |-> i, edge |-> e])]

\* The alias loop with srv_record among the relation types of every hop.
RECURSIVE WalkFrom_SrvEveryHop(_, _, _, _)
RECURSIVE WalkRels_SrvEveryHop(_, _, _, _, _)
WalkFrom_SrvEveryHop(st, since, w, i) ==
    IF i > MaxHops THEN w
    ELSE WalkRels_SrvEveryHop(st, since, w, i, OutgoingRelations(st, w.asset, since, RelTypes(1)))

WalkRels_SrvEveryHop(st, since, w, i, rels) ==
    IF Len(rels) > 0
    THEN WalkFrom_SrvEveryHop(st, since, Follow(st, w, i, FirstFound(st, since, rels)), i + 1)
    ELSE [w EXCEPT !.queries = @ + 1]

\* The alias loop with i <= 11.
RECURSIVE WalkFrom_OneHopMore(_, _, _, _)
RECURSIVE WalkRels_OneHopMore(_, _, _, _, _)
WalkFrom_OneHopMore(st, since, w, i) ==
    IF i > MaxHops + 1 THEN w
    ELSE WalkRels_OneHopMore(st, since, w, i, OutgoingRelations(st, w.asset, since, RelTypes(i)))

WalkRels_OneHopMore(st, since, w, i, rels) ==
    IF Len(rels) > 0
    THEN WalkFrom_OneHopMore(st, since, Follow(st, w, i, FirstFound(st, since, rels)), i + 1)
    ELSE [w EXCEPT !.queries = @ + 1]

RECURSIVE WalkFrom(_, _, _, _)
RECURSIVE WalkRels(_, _, _, _, _)

\* The alias loop from its iteration i on.
WalkFrom(st, since, w, i) ==
    IF i > MaxHops THEN w
    ELSE WalkRels(st, since, w, i, OutgoingRelations(st, w.asset, since, RelTypes(i)))

\* rels is what OutgoingRelations answered in iteration i.
WalkRels(st, since, w, i, rels) ==
    IF Len(rels) > 0
    THEN WalkFrom(st, since, Follow(st, w, i, FirstFound(st, since, rels)), i + 1)
    ELSE [w EXCEPT !.queries = @ + 1]

\* The end of the alias chain of asset a.
Walk(st, since, a) == WalkFrom(st, since, [asset |-> a, queries |-> 0, path |-> <<>>], 1)

Target(st, a, w) ==
    [fqdn |-> st.assets[a].content.name, start |-> a, asset |-> w.asset,
     queries |-> w.queries, path |-> w.path]

RECURSIVE Targets(_, _, _)
\* The loop over fqdns: a target for each asset that is an FQDN.
Targets(st, since, fqdns) ==
    IF Len(fqdns) = 0 THEN <<>>
    ELSE (IF st.assets[Head(fqdns)].content.kind = "FQDN"
          THEN <<Target(st, Head(fqdns), Walk(st, since, Head(fqdns)))>> ELSE <<>>)
         \o Targets(st, since, Tail(fqdns))

\* nameAddrMap is a sequence of [name, addrs], a name at most once, in the
\* order the names came in; addrs is the string set as a sequence.
HasName(m, name) == \E k \in 1..Len(m) : m[k].name = name

\* if _, found := nameAddrMap[name]; !found { nameAddrMap[name] = stringset.New() }
Ensure(m, name) == IF HasName(m, name) THEN m ELSE Append(m, [name |-> name, addrs |-> <<>>])

\* Insert into a list instead of a set.
AddrInsert_NoMembershipTest(m, name, str) ==
    [k \in 1..Len(m) |->
        IF m[k].name = name THEN [m[k] EXCEPT !.addrs = Append(@, str)] ELSE m[k]]

\* nameAddrMap[name].Insert(str)
AddrInsert(m, name, str) ==
    [k \in 1..Len(m) |->
        IF m[k].name = name /\ ~\E x \in 1..Len(m[k].addrs) : m[k].addrs[x] = str
        THEN [m[k] EXCEPT !.addrs = Append(@, str)] ELSE m[k]]

\* The body of the loop over rels, past the map entry: found is FindById's answer.
Collect(st, m, name, found) ==
    IF found = NoAsset THEN m
    ELSE IF st.assets[found].content.kind = "IPAddress"
    THEN AddrInsert(m, name, AddrString(st.assets[found].content.ip))
    ELSE m

RECURSIVE CollectRels(_, _, _, _, _)
CollectRels(st, since, m, name, rels) ==
    IF Len(rels) = 0 THEN m
    ELSE CollectRels(st, since,
                     Collect(st, Ensure(m, name), name,
                             FindById(st, st.edges[Head(rels)].to, since)),
                     name, Tail(rels))

AddrRelTypes == {"a_record", "aaaa_record"}

\* The loop over targets with the zero time in place of since.
RECURSIVE Aggregate_NoCutoff(_, _, _, _)
Aggregate_NoCutoff(st, since, targets, m) ==
    IF Len(targets) = 0 THEN m
    ELSE Aggregate_NoCutoff(st, since, Tail(targets),
                            CollectRels(st, 0, m, Head(targets).fqdn,
                                        OutgoingRelations(st, Head(targets).asset, 0, AddrRelTypes)))

RECURSIVE Aggregate(_, _, _, _)
\* The loop over targets.
Aggregate(st, since, targets, m) ==
    IF Len(targets) = 0 THEN m
    ELSE Aggregate(st, since, Tail(targets),
                   CollectRels(st, since, m, Head(targets).fqdn,
                               OutgoingRelations(st, Head(targets).asset, since, AddrRelTypes)))

Pair(name, ip, t) == [fqdn |-> name, ip |-> ip, type |-> t]

\* PairOf that tags only IPv4 addresses.
PairOf_Untyped6(name, p) ==
    IF ~p.ok THEN <<>>
    ELSE <<Pair(name, p.ip, IF Is4(p.ip) THEN "IPv4" ELSE "")>>

\* The pair of one address string, p what ParseAddr answered; none on an error.
PairOf(name, p) ==
    IF ~p.ok THEN <<>>
    ELSE <<Pair(name, p.ip, IF Is4(p.ip) THEN "IPv4" ELSE IF Is6(p.ip) THEN "IPv6" ELSE "")>>

RECURSIVE PairsOfSet(_, _)
PairsOfSet(name, addrs) ==
    IF Len(addrs) = 0 THEN <<>>
    ELSE PairOf(name, ParseAddr(Head(addrs))) \o PairsOfSet(name, Tail(addrs))

RECURSIVE generatePairsFromAddrMap(_)
generatePairsFromAddrMap(m) ==
    IF Len(m) = 0 THEN <<>>
    ELSE PairsOfSet(Head(m).name, Head(m).addrs) \o generatePairsFromAddrMap(Tail(m))

Result(err, pairs, targets, log) ==
    [err |-> err, pairs |-> pairs, targets |-> targets, calls |-> log]

\* FromMap with the two error texts exchanged.
FromMap_ErrorsSwapped(found, targets, m, pairs) ==
    IF Len(m) = 0 THEN Result("no addresses were discovered", <<>>, targets, found.calls)
    ELSE IF Len(pairs) = 0 THEN Result("no pairs to process", <<>>, targets, found.calls)
    ELSE Result("", pairs, targets, found.calls)

\* From len(nameAddrMap) == 0 on.
FromMap(found, targets, m, pairs) ==
    IF Len(m) = 0 THEN Result("no pairs to process", <<>>, targets, found.calls)
    ELSE IF Len(pairs) = 0 THEN Result("no addresses were discovered", <<>>, targets, found.calls)
    ELSE Result("", pairs, targets, found.calls)

FromAggregate(found, targets, m) == FromMap(found, targets, m, generatePairsFromAddrMap(m))

\* From len(targets) == 0 on.
FromTargets(st, since, found, targets) ==
    IF Len(targets) = 0 THEN Result("no targets to query", <<>>, <<>>, found.calls)
    ELSE FromAggregate(found, targets, Aggregate(st, since, targets, <<>>))

\* From len(fqdns) == 0 on.
FromNames(st, since, found) ==
    IF Len(found.fqdns) = 0 THEN Result("no names to query", <<>>, <<>>, found.calls)
    ELSE FromTargets(st, since, found, Targets(st, since, found.fqdns))

\* g.NamesToAddrs(ctx, since, names...) as [err, pairs, targets, calls].
Resolve(st, since, names) ==
    FromNames(st, since, FindNames(st, since, names, {}, [fqdns |-> <<>>, calls |-> <<>>]))

Resolved(o, r) ==
    /\ op' = [o EXCEPT !.err = r.err, !.pairs = r.pairs, !.targets = r.targets]
    /\ calls' = r.calls

\* g.NamesToAddrs: the store is read, never written.
NamesToAddrs(since, names) ==
    /\ Resolved([BlankOp EXCEPT !.name = "NamesToAddrs", !.since = since, !.names = names],
                Resolve(Store, since, names))
    /\ UNCHANGED <<assets, edges, now, hist, dbq>>

-----------------------------------------------------------------------------
(* The read path's specification: NamesToAddrs over graph snapshots *)

Digits == <<"0", "1", "2", "3", "4", "5", "6", "7", "8", "9", "a", "b", "c", "d", "e",
            "f", "g", "h", "i", "j">>

\* The name of the chain's k-th asset, k from 0.
NodeName(k) == <<"n", Digits[k + 1]>>

Asset(id, content, seen) == [id |-> id, content |-> content, seen |-> seen]
Edge(from, to, type, created) == [from |-> from, to |-> to, type |-> type, created |-> created]

\* n0 -> n1 -> ... -> n<MaxChain> by cname_record; n10 and the last name have
\* an address.
ChainGraph ==
    [assets |-> [i \in 1..MaxChain + 3 |->
                    IF i <= MaxChain + 1 THEN Asset(i, FQDN(NodeName(i - 1)), 2)
                    ELSE IF i = MaxChain + 2 THEN Asset(i, IPAddress(V4Addr, "IPv4"), 2)
                    ELSE Asset(i, IPAddress(V6Addr, "IPv6"), 2)],
     edges |-> [i \in 1..MaxChain + 2 |->
                    IF i <= MaxChain THEN Edge(i, i + 1, "cname_record", 2)
                    ELSE IF i = MaxChain + 1 THEN Edge(MaxHops + 1, MaxChain + 2, "a_record", 2)
                    ELSE Edge(MaxChain + 1, MaxChain + 3, "aaaa_record", 2)]]

\* a -> b -> c -> a by cname_record.
CycleGraph ==
    [assets |-> << Asset(1, FQDN(<<"a">>), 1), Asset(2, FQDN(<<"b">>), 1),
                   Asset(3, FQDN(<<"c">>), 1), Asset(4, IPAddress(V4Addr, "IPv4"), 1),
                   Asset(5, IPAddress(V6Addr, "IPv6"), 1) >>,
     edges |-> << Edge(1, 2, "cname_record", 1), Edge(2, 3, "cname_record", 2),
                  Edge(3, 1, "cname_record", 3), Edge(2, 4, "a_record", 3),
                  Edge(3, 5, "aaaa_record", 3) >>]

\* a -srv-> b -srv-> c, and c -cname-> a.
SrvGraph ==
    [assets |-> << Asset(1, FQDN(<<"a">>), 3), Asset(2, FQDN(<<"b">>), 3),
                   Asset(3, FQDN(<<"c">>), 3), Asset(4, IPAddress(V4Addr, "IPv4"), 3),
                   Asset(5, IPAddress(V6Addr, "IPv6"), 3), Asset(6, IPAddress(V6Other, "IPv6"), 3) >>,
     edges |-> << Edge(1, 2, "srv_record", 1), Edge(2, 3, "srv_record", 2),
                  Edge(3, 1, "cname_record", 3), Edge(1, 4, "a_record", 1),
                  Edge(2, 5, "aaaa_record", 2), Edge(3, 6, "aaaa_record", 3) >>]

\* Assets older than the edges between them, a name with an alias and an
\* address of its own, and a name stored as the archive wrote it.
TimesGraph ==
    [assets |-> << Asset(1, FQDN(<<"a">>), 1), Asset(2, IPAddress(V4Addr, "IPv4"), 3),
                   Asset(3, FQDN(<<"b">>), 3), Asset(4, IPAddress(V6Addr, "IPv6"), 1),
                   Asset(5, FQDN(<<"c">>), 3), Asset(6, FQDN(<<"d">>), 3),
                   Asset(7, FQDN(<<"B">>), 2) >>,
     edges |-> << Edge(1, 2, "a_record", 3), Edge(3, 4, "aaaa_record", 2),
                  Edge(5, 6, "cname_record", 2), Edge(5, 2, "a_record", 3),
                  Edge(7, 2, "a_record", 2) >>]

\* Several edges to one address, two assets of one address value, an address
\* edge to a name, an address that does not print as one, and two aliases of
\* which the first leads nowhere.
DupGraph ==
    [assets |-> << Asset(1, FQDN(<<"a">>), 3), Asset(2, IPAddress(V4Addr, "IPv4"), 3),
                   Asset(3, IPAddress(V4Addr, ""), 3), Asset(4, FQDN(<<"b">>), 3),
                   Asset(5, IPAddress(ZeroAddr, ""), 3), Asset(6, FQDN(<<"c">>), 3),
                   Asset(7, FQDN(<<"d">>), 1), Asset(8, FQDN(<<"e">>), 3),
                   Asset(9, IPAddress(V6Addr, "IPv6"), 3) >>,
     edges |-> << Edge(1, 2, "a_record", 1), Edge(1, 3, "a_record", 3),
                  Edge(1, 2, "aaaa_record", 2), Edge(1, 4, "a_record", 2),
                  Edge(1, 9, "a_record", 1),
                  Edge(4, 5, "a_record", 2), Edge(6, 7, "cname_record", 2),
                  Edge(6, 8, "cname_record", 2), Edge(8, 2, "a_record", 2) >>]

EmptyGraph == [assets |-> <<>>, edges |-> <<>>]

Snapshots == {EmptyGraph, ChainGraph, CycleGraph, SrvGraph, TimesGraph, DupGraph}

\* The names NamesToAddrs is asked for.
QueryNames ==
    {<<"a">>, <<"b">>, <<"c">>, <<"B">>, <<" ", "a">>, <<"z">>,
     NodeName(0), NodeName(1), NodeName(MaxChain - MaxHops), NodeName(MaxChain - MaxHops + 1)}

RECURSIVE SeqsUpTo(_, _)
\* The sequences over S of length at most n.
SeqsUpTo(S, n) ==
    IF n = 0 THEN {<<>>}
    ELSE SeqsUpTo(S, n - 1) \cup {Append(q, x) : q \in SeqsUpTo(S, n - 1), x \in S}

\* A snapshot, and the call to make on it.
InitRead ==
    /\ \E g \in Snapshots : assets = g.assets /\ edges = g.edges
    /\ now = MaxTime
    /\ \E since \in 0..MaxSince, names \in SeqsUpTo(QueryNames, MaxNames) :
          op = [BlankOp EXCEPT !.since = since, !.names = names]
    /\ calls = <<>>
    /\ hist = <<>>
    /\ dbq = <<>>

NextRead == op.name = "" /\ NamesToAddrs(op.since, op.names)

SpecRead == InitRead /\ [][NextRead]_vars

-----------------------------------------------------------------------------
(* Claims about the write path *)

BuildError == "failed to build the OAM IPAddress"

AssetsWith(as, Test(_)) == {i \in 1..Len(as) : Test(as[i].content)}

\* The step is a call of one of the operations named, with an address text that
\* does not parse.
MalformedCall(names) ==
    /\ hist' # hist
    /\ op'.name \in names
    /\ ~ParseAddr(op'.addr).ok

\* C2: UpsertAddress with a text that does not parse as an IP address fails
\* with the address-format error and creates nothing: no Create call reaches
\* the store, and the assets and edges are the ones there were.
C2_UpsertAddressRejectsMalformed ==
    [][MalformedCall({"UpsertAddress"}) =>
          /\ op'.err = BuildError
          /\ \A i \in 1..Len(calls') : calls'[i].fn # "Create"
          /\ assets' = assets
          /\ edges' = edges]_vars

\* C10: UpsertA and UpsertAAAA with a malformed address fail with the
\* address-format error, add no Address asset and no edge, and add at most the
\* Name asset of the call.
C10_MalformedAddsOnlyName ==
    [][MalformedCall({"UpsertA", "UpsertAAAA"}) =>
          /\ op'.err = BuildError
          /\ op'.ret = NoAsset
          /\ edges' = edges
          /\ Len(assets') \in {Len(assets), Len(assets) + 1}
          /\ \A i \in 1..Len(assets) : assets'[i].content = assets[i].content
          /\ Len(assets') = Len(assets) + 1 =>
                assets'[Len(assets')].content = FQDN(Normalize(op'.fqdn))]_vars

C10_Witness ==
    /\ op.name \in {"UpsertA", "UpsertAAAA"}
    /\ ~ParseAddr(op.addr).ok
    /\ op.err = BuildError
    /\ \E i \in 1..Len(assets) : assets[i].content = FQDN(Normalize(op.fqdn)) /\ assets[i].seen = now - 1

\* The successful calls of the write path so far.
Succeeded == {i \in 1..Len(hist) : hist[i].err = ""}

NameAssets(fqdn) == AssetsWith(assets, LAMBDA c : c.kind = "FQDN" /\ c.name = Normalize(fqdn))

AddrAssets(addr) ==
    AssetsWith(assets, LAMBDA c : c.kind = "IPAddress" /\ c.ip = ParseAddr(addr).ip)

RecordEdges(h) ==
    {i \in 1..Len(edges) :
        /\ edges[i].from \in NameAssets(h.fqdn)
        /\ edges[i].to \in AddrAssets(h.addr)
        /\ edges[i].type = (IF h.name = "UpsertA" THEN "a_record" ELSE "aaaa_record")}

\* C4: after any number of calls of UpsertA (UpsertAAAA, UpsertAddress) with the
\* same valid inputs the graph holds exactly one Name asset for the name,
\* exactly one Address asset for the address and exactly one edge of the record
\* type between them, and every such call returned that Address asset.
C4_UpsertIdempotent ==
    \A i \in Succeeded :
        /\ AddrAssets(hist[i].addr) = {hist[i].ret}
        /\ hist[i].name # "UpsertAddress" =>
              /\ Cardinality(NameAssets(hist[i].fqdn)) = 1
              /\ Cardinality(RecordEdges(hist[i])) = 1
        /\ \A j \in Succeeded :
              (hist[j].name = hist[i].name /\ hist[j].fqdn = hist[i].fqdn
               /\ hist[j].addr = hist[i].addr) => hist[j].ret = hist[i].ret

C4_Witness ==
    \E i, j \in Succeeded :
        /\ i < j
        /\ hist[i] = hist[j]
        /\ hist[i].name = "UpsertA"
        /\ hist[i].fqdn # Normalize(hist[i].fqdn)
        /\ AddrString(ParseAddr(hist[i].addr).ip) # hist[i].addr

-----------------------------------------------------------------------------
(* Claims about the read path *)

IsRead == op.name = "NamesToAddrs"

TargetIdx == 1..Len(op.targets)

\* The edges out of asset a of the given types created at or after the cutoff.
VisibleEdges(a, types) ==
    {i \in 1..Len(edges) :
        edges[i].from = a /\ edges[i].type \in types /\ edges[i].created >= op.since}

\* The asset is seen at or after the cutoff.
Seen(a) == a \in 1..Len(assets) /\ assets[a].seen >= op.since

\* The asset is an Address asset holding an address that prints and parses.
ValidAddress(a) ==
    /\ assets[a].content.kind = "IPAddress"
    /\ ParseAddr(AddrString(assets[a].content.ip)).ok

\* The address edges a resolution of terminal asset a can use.
UsableEdges(a) ==
    {i \in VisibleEdges(a, AddrRelTypes) : Seen(edges[i].to) /\ ValidAddress(edges[i].to)}

HasPair(name, ip) == \E k \in 1..Len(op.pairs) : op.pairs[k].fqdn = name /\ op.pairs[k].ip = ip

Family(ip) == IF ip.z = "4" THEN "IPv4" ELSE "IPv6"

\* The targets after the one cname_record edge out of a, NoAsset when there is
\* none or more than one edge.
CnameNext(a) ==
    IF a # NoAsset /\ Cardinality(VisibleEdges(a, {"cname_record"})) = 1
       /\ \A i \in VisibleEdges(a, {"cname_record"}) : Seen(edges[i].to)
    THEN edges[CHOOSE i \in VisibleEdges(a, {"cname_record"}) : TRUE].to
    ELSE NoAsset

RECURSIVE ChainNode(_, _)
\* The asset k cname_record edges down the chain from a, NoAsset when the chain
\* is shorter.
ChainNode(a, k) == IF k = 0 THEN a ELSE CnameNext(ChainNode(a, k - 1))

\* C1: for every snapshot and starting name the alias walk ends after at most
\* 10 hops and at most 10 alias queries, at an asset of the graph; when the
\* cname_record chain from the name has 10 edges or more (a longer chain, a
\* cycle), the walk ends at the asset 10 edges down the chain.
C1_WalkBounded ==
    IsRead =>
      \A k \in TargetIdx :
         /\ op.targets[k].queries <= MaxHops
         /\ Len(op.targets[k].path) <= MaxHops
         /\ op.targets[k].asset \in 1..Len(assets)
         /\ (ChainNode(op.targets[k].start, MaxHops) # NoAsset
             /\ VisibleEdges(op.targets[k].start, {"srv_record"}) = {})
            => /\ op.targets[k].asset = ChainNode(op.targets[k].start, MaxHops)
               /\ op.targets[k].queries = MaxHops

C1_Witness ==
    /\ IsRead
    /\ \E k \in TargetIdx :
          /\ Len(op.targets[k].path) = MaxHops
          /\ VisibleEdges(op.targets[k].asset, {"cname_record"}) # {}
          /\ \A j \in 1..MaxHops : ChainNode(op.targets[k].start, j) \notin
                                      {ChainNode(op.targets[k].start, i) : i \in 0..j - 1}

\* The asset the walk of target t is at after j edges.
At(t, j) == IF j = 0 THEN t.start ELSE edges[t.path[j].edge].to

\* C9: a srv_record edge is followed only at hop 1, out of the starting name
\* asset; at hops 2 to 10 only cname_record edges are followed; every edge
\* followed is created at or after the cutoff and leaves the asset the walk is at;
\* and the walk ends, before the 10th hop, only at an asset with no outgoing
\* edge of the hop's types created at or after the cutoff.
C9_HopRule ==
    IsRead =>
      \A k \in TargetIdx :
         /\ \A j \in 1..Len(op.targets[k].path) :
               /\ op.targets[k].path[j].hop \in 1..MaxHops
               /\ j > 1 => op.targets[k].path[j].hop > op.targets[k].path[j - 1].hop
               /\ edges[op.targets[k].path[j].edge].from = At(op.targets[k], j - 1)
               /\ edges[op.targets[k].path[j].edge].created >= op.since
               /\ edges[op.targets[k].path[j].edge].type \in {"cname_record", "srv_record"}
               /\ edges[op.targets[k].path[j].edge].type = "srv_record" =>
                     op.targets[k].path[j].hop = 1 /\ j = 1
         /\ op.targets[k].asset = At(op.targets[k], Len(op.targets[k].path))
         /\ op.targets[k].queries < MaxHops =>
               VisibleEdges(op.targets[k].asset, RelTypes(op.targets[k].queries)) = {}

C9_Witness ==
    /\ IsRead
    /\ \E k \in TargetIdx :
          /\ Len(op.targets[k].path) = 1
          /\ edges[op.targets[k].path[1].edge].type = "srv_record"
          /\ op.targets[k].queries = 2
          /\ VisibleEdges(op.targets[k].asset, {"srv_record"}) # {}
          /\ \A i \in VisibleEdges(op.targets[k].asset, {"srv_record"}) : Seen(edges[i].to)

\* C5: no (name, address) pair occurs twice in a result; an address that
\* several address edges of a name's terminal asset lead to is returned once.
C5_NoDuplicatePairs ==
    IsRead =>
      /\ \A i, j \in 1..Len(op.pairs) :
            (op.pairs[i].fqdn = op.pairs[j].fqdn /\ op.pairs[i].ip = op.pairs[j].ip) => i = j
      /\ \A k \in TargetIdx : \A e \in UsableEdges(op.targets[k].asset) :
            Cardinality({i \in 1..Len(op.pairs) :
                            /\ op.pairs[i].fqdn = op.targets[k].fqdn
                            /\ op.pairs[i].ip = assets[edges[e].to].content.ip}) = 1

C5_Witness ==
    /\ IsRead
    /\ \E i, j \in 1..Len(op.names) : i < j /\ op.names[i] = op.names[j]
    /\ \E k \in TargetIdx : \E e, f \in UsableEdges(op.targets[k].asset) :
          /\ edges[e].to # edges[f].to
          /\ assets[edges[e].to].content.ip = assets[edges[f].to].content.ip
          /\ HasPair(op.targets[k].fqdn, assets[edges[e].to].content.ip)

\* The names of the list that FindByContent finds at the cutoff.
FoundNames ==
    {op.names[i] : i \in {j \in 1..Len(op.names) :
                            Len(FindByContent(Store, FQDN(op.names[j]), op.since)) > 0}}

\* C8: an empty name list and a list of names none of which is found fail with
\* "no names to query"; a name not found next to one found is only left out;
\* found names with no address edge at the end of their alias chains fail with
\* "no pairs to process"; "no addresses were discovered" is returned only when
\* address edges exist and none yields an address; a failure returns no pairs.
C8_EmptyResults ==
    IsRead =>
      /\ FoundNames = {} <=> op.err = "no names to query"
      /\ FoundNames # {} => {op.targets[k].fqdn : k \in TargetIdx} = FoundNames
      /\ (FoundNames # {}
          /\ \A k \in TargetIdx : VisibleEdges(op.targets[k].asset, AddrRelTypes) = {})
         => op.err = "no pairs to process"
      /\ op.err = "no addresses were discovered" =>
            /\ \E k \in TargetIdx : VisibleEdges(op.targets[k].asset, AddrRelTypes) # {}
            /\ \A k \in TargetIdx : UsableEdges(op.targets[k].asset) = {}
      /\ op.err # "" => op.pairs = <<>>
      /\ op.err = "" => op.pairs # <<>>

C8_Witness ==
    /\ IsRead
    /\ Len(op.names) = 2
    /\ Cardinality(FoundNames) = 1
    /\ op.names[1] \notin FoundNames
    /\ op.err = "no pairs to process"

\* The asset FindByContent finds first for the name, NoAsset when none.
FirstAsset(name) ==
    IF Len(FindByContent(Store, FQDN(name), op.since)) > 0
    THEN FindByContent(Store, FQDN(name), op.since)[1] ELSE NoAsset

\* The a_record edges from a name of the list to an Address asset.
NamedARecords ==
    {i \in 1..Len(edges) :
        /\ edges[i].type = "a_record"
        /\ assets[edges[i].from].content.kind = "FQDN"
        /\ \E j \in 1..Len(op.names) : op.names[j] = assets[edges[i].from].content.name
        /\ assets[edges[i].to].content.kind = "IPAddress"}

EdgePairReturned(i) ==
    HasPair(assets[edges[i].from].content.name, assets[edges[i].to].content.ip)

\* C3 as claimed: the pair of an a_record edge created at t is not returned
\* with a cutoff later than t and is returned with every cutoff up to t,
\* whatever the times of the name asset and the address asset.
C3_CutoffWhateverAssetTimes ==
    IsRead =>
      \A i \in NamedARecords :
         /\ op.since > edges[i].created => ~EdgePairReturned(i)
         /\ op.since <= edges[i].created => EdgePairReturned(i)

\* C3 as amended: every pair returned comes from an address edge created at or
\* after the cutoff, out of the end of the name's alias chain, to an Address
\* asset seen at or after the cutoff; and the pair of an a_record edge created at
\* or after the cutoff is returned when the name asset and the address asset are
\* seen at or after the cutoff, the address is valid and the name has no alias
\* edge created at or after the cutoff.
C3_CutoffMonotone ==
    IsRead =>
      /\ \A p \in 1..Len(op.pairs) : \E k \in TargetIdx :
            /\ op.targets[k].fqdn = op.pairs[p].fqdn
            /\ \E e \in UsableEdges(op.targets[k].asset) :
                  assets[edges[e].to].content.ip = op.pairs[p].ip
      /\ \A i \in NamedARecords :
            (/\ op.since <= edges[i].created
             /\ FirstAsset(assets[edges[i].from].content.name) = edges[i].from
             /\ VisibleEdges(edges[i].from, {"cname_record", "srv_record"}) = {}
             /\ Seen(edges[i].to)
             /\ ValidAddress(edges[i].to))
            => EdgePairReturned(i)

C3_Witness ==
    /\ IsRead
    /\ op.since > 1
    /\ \E i, j \in NamedARecords :
          /\ edges[i].from = edges[j].from
          /\ edges[i].created < op.since
          /\ edges[j].created >= op.since
          /\ EdgePairReturned(j)
          /\ ~EdgePairReturned(i)
          /\ assets[edges[i].to].seen >= op.since

AliasStep(S) ==
    S \cup {edges[i].to : i \in {j \in 1..Len(edges) :
                                    /\ edges[j].from \in S
                                    /\ edges[j].type \in {"cname_record", "srv_record"}
                                    /\ edges[j].created >= op.since
                                    /\ Seen(edges[j].to)}}

RECURSIVE AliasReach(_)
\* The assets reachable from those of S through alias edges.
AliasReach(S) == IF AliasStep(S) = S THEN S ELSE AliasReach(AliasStep(S))

\* The names of the list that are found and from which an address is reachable.
ResolvableNames ==
    {n \in FoundNames : \E a \in AliasReach({FirstAsset(n)}) : UsableEdges(a) # {}}

ValidPair(p) == ParseAddr(AddrString(p.ip)).ok /\ p.type = Family(p.ip)

C7_NamesNormalized ==
    \A i \in 1..Len(calls) :
        calls[i].content.kind = "FQDN" =>
            calls[i].content.name = Normalize(calls[i].content.name)

====
